---------------------------- MODULE Spec2Model ----------------------------
(***************************************************************************)
(* Model of mkwant/list_to_sheets.                                         *)
(*                                                                         *)
(*   SpecSort     src/src/singlesorter.py  list_sorter                     *)
(*   SpecSync     src/src/to_sheets.py     ListUpdater.run, main           *)
(*   SpecResolve  src/src/to_sheets.py     get_current_item                *)
(*                                                                         *)
(* The pipelines share no state; each specification moves its own          *)
(* variables and leaves the others at their idle values.                   *)
(***************************************************************************)
EXTENDS Integers, Sequences, FiniteSets, TLC

VARIABLES
    \* ---- list_sorter ----
    sheet,           \* the cells of the Excel sheet that is read (82)
    cty_order_list,  \* parameter cty_order_list
    df,              \* DataFrame rows, by label (position in the sheet)
    columns,         \* df.columns
    col_index,       \* column SORT_INDEX: label -> value, for the labels set
    col_cty,         \* column SORT_CTY: label -> value, for the labels set
    it,              \* number of rows df.iterrows() has delivered
    sort_index,      \* local sort_index
    df_index,        \* df.index: the labels in row order
    new_excel,       \* the written file (NoFile until written)
    pc,              \* position in list_sorter
    pass,            \* 1: sorting the sheet; 2: sorting the first output
    first_excel,     \* the file the first pass wrote
    \* ---- ListUpdater ----
    drive,              \* the files on Google Drive, in ListFile order
    source,             \* the item the web location offers
    google_drive_item,  \* ListUpdater.google_drive_item
    current_item,       \* ListUpdater.current_item
    local_files,        \* names of the files in the working directory
    calls,              \* what this run has done so far, in order
    rpc,                \* position in main / ListUpdater.run
    runs,               \* number of times main has been started
    drive_before,       \* drive when this run started
    files_before,       \* local_files when this run started
    failed,             \* the step of this run that raised, "" if none
    \* ---- get_current_item ----
    date_format,        \* how the server writes the Last modified column
    listing,            \* the rows pd.read_html returns
    res_df,             \* local df
    result,             \* the CurrentItem returned
    gpc                 \* position in get_current_item

sortVars == <<sheet, cty_order_list, df, columns, col_index, col_cty, it,
              sort_index, df_index, new_excel, pc, pass, first_excel>>

syncVars == <<drive, source, google_drive_item, current_item, local_files,
              calls, rpc, runs, drive_before, files_before, failed>>

resVars == <<date_format, listing, res_df, result, gpc>>

vars == <<sortVars, syncVars, resVars>>

(***************************************************************************)
(* Bounds                                                                  *)
(***************************************************************************)
MaxRows == 3
MaxTime == 3
MaxRuns == 2
MaxEntries == 2

(***************************************************************************)
(* list_sorter: values                                                     *)
(***************************************************************************)
\* pandas' missing value; a float nan, written here as a reserved token
NaN == "NaN"

\* Python's '' stored in SORT_CTY by the except branch (107)
EMPTY == -1

NoFile == <<"no file">>

\* cell texts of the TITLE column; "" is a blank cell
TitleCells == {"A", "B", ""}

\* cell texts of the CTY column; ZZ is in no priority list used here
CtyCells == {"UK", "USA", "ZZ"}

\* cell texts of a column that list_sorter carries through unread
CatCells == {"c1", "c2"}

\* the header row of the sheet
SheetColumns == <<"TITLE", "CTY", "CAT">>

SheetRows == [TITLE : TitleCells, CTY : CtyCells, CAT : CatCells]

RECURSIVE SeqsUpTo(_, _)
SeqsUpTo(S, n) ==
    IF n = 0 THEN {<<>>}
    ELSE LET shorter == SeqsUpTo(S, n - 1)
         IN  shorter \cup {Append(s, x) : s \in {t \in shorter : Len(t) = n - 1}, x \in S}

Sheets == SeqsUpTo(SheetRows, MaxRows)

\* priority lists: distinct tokens, as CTY_ORDER (21-77) is
PriorityLists == {<<"UK", "USA">>, <<"USA", "UK">>, <<"UK">>}

\* pd.read_excel (82): a blank cell is read as NaN (default na_values)
ReadCell(c) == IF c = "" THEN NaN ELSE c

ReadExcel(cells) ==
    [i \in 1..Len(cells) |-> [c \in DOMAIN cells[i] |-> ReadCell(cells[i][c])]]

\* df.to_excel (123): NaN is written as a blank cell (na_rep='')
WriteCell(v) == IF v = NaN THEN "" ELSE v

\* Python's != on cell values: nan compares unequal to everything, itself included
PyNe(a, b) == a = NaN \/ b = NaN \/ a /= b

\* the comparison turned around: a new group where the title repeats
TitleRepeats(rows, i) ==
    LET title      == rows[i].TITLE
        prev_title == IF i = 1 THEN "" ELSE rows[i - 1].TITLE
    IN  ~PyNe(title, prev_title)

\* title != prev_title (93-99); prev_title is '' for the first row
TitleDiffers(rows, i) ==
    LET title      == rows[i].TITLE
        prev_title == IF i = 1 THEN "" ELSE rows[i - 1].TITLE
    IN  PyNe(title, prev_title)

\* sort_index after row i (99-100)
NextSortIndex(si, rows, i) == IF TitleDiffers(rows, i) THEN si + 1 ELSE si

InList(list, x) == \E k \in 1..Len(list) : list[k] = x

\* list.index(x): zero-based position of the first occurrence
ListIndex(list, x) ==
    (CHOOSE k \in 1..Len(list) : list[k] = x /\ \A j \in 1..(k - 1) : list[j] /= x) - 1

\* 103-107: the lookup, '' when list.index raises ValueError
SortCty(list, cty) == IF InList(list, cty) THEN ListIndex(list, cty) ELSE EMPTY


\* (SORT_INDEX, SORT_CTY) of label a sorts strictly before that of label b (118)
KeyLess(a, b, k1, k2) == k1[a] < k1[b] \/ (k1[a] = k1[b] /\ k2[a] < k2[b])

\* an insertion that puts x before the rows of equal key
InsertPosBeforeEqual(s, x, k1, k2) ==
    1 + Cardinality({p \in 1..Len(s) : KeyLess(s[p], x, k1, k2)})

\* where x goes in the sorted s: behind every row whose key is not greater
\* (the multi-column sort_values is pandas' lexsort, a stable sort)
InsertPos(s, x, k1, k2) ==
    1 + Cardinality({p \in 1..Len(s) : ~KeyLess(x, s[p], k1, k2)})

Insert(s, x, k1, k2) ==
    LET p == InsertPos(s, x, k1, k2)
    IN  SubSeq(s, 1, p - 1) \o <<x>> \o SubSeq(s, p, Len(s))

RECURSIVE SortPrefix(_, _, _, _)
SortPrefix(labels, n, k1, k2) ==
    IF n = 0 THEN <<>>
    ELSE Insert(SortPrefix(labels, n - 1, k1, k2), labels[n], k1, k2)

\* df.sort_values(by=['SORT_INDEX', 'SORT_CTY']) (118): the new df.index
SortValues(labels, k1, k2) == SortPrefix(labels, Len(labels), k1, k2)

\* columns=list(df.columns)[:-2] (125)
OutputColumns(cols) == SubSeq(cols, 1, Len(cols) - 2)

\* df.to_excel(index=False, columns=...) (123-125): the rows in df.index order
ToExcelRows(rows, labels, cols) ==
    [p \in 1..Len(labels) |->
        [c \in {cols[k] : k \in 1..Len(cols)} |-> WriteCell(rows[labels[p]][c])]]

(***************************************************************************)
(* list_sorter: steps                                                      *)
(***************************************************************************)
IdleSync ==
    /\ drive = <<>>
    /\ source = <<>>
    /\ google_drive_item = <<>>
    /\ current_item = <<>>
    /\ local_files = {}
    /\ calls = <<>>
    /\ rpc = "off"
    /\ runs = 0
    /\ drive_before = <<>>
    /\ files_before = {}
    /\ failed = ""

IdleResolve ==
    /\ date_format = ""
    /\ listing = <<>>
    /\ res_df = <<>>
    /\ result = <<>>
    /\ gpc = "off"

InitSort ==
    /\ IdleSync
    /\ IdleResolve
    /\ sheet \in Sheets
    /\ cty_order_list \in PriorityLists
    /\ df = <<>>
    /\ columns = <<>>
    /\ col_index = <<>>
    /\ col_cty = <<>>
    /\ it = 0
    /\ sort_index = 0
    /\ df_index = <<>>
    /\ new_excel = NoFile
    /\ pc = "read"
    /\ pass = 1
    /\ first_excel = NoFile

\* parameter excel_file: the sheet, or the file the first call wrote
ExcelFile == IF pass = 1 THEN sheet ELSE first_excel

\* 82-89: read the sheet; sort_index = 0
ReadSheet ==
    /\ pc = "read"
    /\ df' = ReadExcel(ExcelFile)
    /\ columns' = SheetColumns
    /\ df_index' = [i \in 1..Len(ExcelFile) |-> i]
    /\ col_index' = <<>>
    /\ col_cty' = <<>>
    /\ it' = 0
    /\ sort_index' = 0
    /\ pc' = "loop"
    /\ UNCHANGED <<syncVars, resVars>>
    /\ UNCHANGED <<sheet, cty_order_list, new_excel, pass, first_excel>>

\* df.at[index, col] = v on a column that may not exist yet (110-111)
WithColumn(cols, c) ==
    IF \E k \in 1..Len(cols) : cols[k] = c THEN cols ELSE Append(cols, c)

\* 90-111: one iteration of the loop over df.iterrows()
IterRow ==
    /\ pc = "loop"
    /\ it < Len(df)
    /\ LET i == it + 1
           si == NextSortIndex(sort_index, df, i)
       IN  /\ sort_index' = si
           /\ col_index' = Append(col_index, si)
           /\ col_cty' = Append(col_cty, SortCty(cty_order_list, df[i].CTY))
           /\ columns' = WithColumn(WithColumn(columns, "SORT_INDEX"), "SORT_CTY")
           /\ it' = i
    /\ UNCHANGED <<syncVars, resVars>>
    /\ UNCHANGED <<sheet, cty_order_list, df, df_index, new_excel, pc, pass, first_excel>>

HasColumn(c) == \E k \in 1..Len(columns) : columns[k] = c

\* 114: df['SORT_INDEX'] on a frame whose loop never ran raises KeyError
CastKeyError ==
    /\ pc = "loop"
    /\ it = Len(df)
    /\ ~HasColumn("SORT_INDEX")
    /\ pc' = "raised"
    /\ UNCHANGED <<syncVars, resVars>>
    /\ UNCHANGED <<sheet, cty_order_list, df, columns, col_index, col_cty, it,
                   sort_index, df_index, new_excel, pass, first_excel>>

\* 115: astype('int') on a column holding '' raises ValueError
CastValueError ==
    /\ pc = "loop"
    /\ it = Len(df)
    /\ HasColumn("SORT_INDEX")
    /\ \E i \in 1..Len(col_cty) : col_cty[i] = EMPTY
    /\ pc' = "raised"
    /\ UNCHANGED <<syncVars, resVars>>
    /\ UNCHANGED <<sheet, cty_order_list, df, columns, col_index, col_cty, it,
                   sort_index, df_index, new_excel, pass, first_excel>>

\* 113-115: both casts succeed
CastOk ==
    /\ pc = "loop"
    /\ it = Len(df)
    /\ HasColumn("SORT_INDEX")
    /\ \A i \in 1..Len(col_cty) : col_cty[i] /= EMPTY
    /\ pc' = "sort"
    /\ UNCHANGED <<syncVars, resVars>>
    /\ UNCHANGED <<sheet, cty_order_list, df, columns, col_index, col_cty, it,
                   sort_index, df_index, new_excel, pass, first_excel>>

\* 118
SortStep ==
    /\ pc = "sort"
    /\ df_index' = SortValues(df_index, col_index, col_cty)
    /\ pc' = "write"
    /\ UNCHANGED <<syncVars, resVars>>
    /\ UNCHANGED <<sheet, cty_order_list, df, columns, col_index, col_cty, it,
                   sort_index, new_excel, pass, first_excel>>

\* 122-125
ToExcel ==
    /\ pc = "write"
    /\ new_excel' = ToExcelRows(df, df_index, OutputColumns(columns))
    /\ pc' = "done"
    /\ UNCHANGED <<syncVars, resVars>>
    /\ UNCHANGED <<sheet, cty_order_list, df, columns, col_index, col_cty, it,
                   sort_index, df_index, pass, first_excel>>

\* list_sorter called on the file the first call wrote (80-82)
SortAgain ==
    /\ pc = "done"
    /\ pass = 1
    /\ first_excel' = new_excel
    /\ pass' = 2
    /\ pc' = "read"
    /\ new_excel' = NoFile
    /\ UNCHANGED <<syncVars, resVars>>
    /\ UNCHANGED <<sheet, cty_order_list, df, columns, col_index, col_cty, it,
                   sort_index, df_index>>

NextSort ==
    \/ ReadSheet
    \/ IterRow
    \/ CastKeyError
    \/ CastValueError
    \/ CastOk
    \/ SortStep
    \/ ToExcel
    \/ SortAgain

SpecSort == InitSort /\ [][NextSort]_vars

(***************************************************************************)
(* list_sorter: properties                                                 *)
(***************************************************************************)
Finished == pc \in {"done", "raised"}

\* position of label l in df.index
PosOf(l) == CHOOSE p \in 1..Len(df_index) : df_index[p] = l

Unranked(i) == ~InList(cty_order_list, sheet[i].CTY)

\* rows i and j of the sheet lie in one run of adjacent equal titles
SameRun(i, j) ==
    \A k \in 1..Len(sheet) :
        (k >= i /\ k >= j) \/ (k < i /\ k < j) \/ sheet[k].TITLE = sheet[k + 1].TITLE

\* C1: a row whose CTY is not in the priority list does not abort the run; the
\* row is kept in the output and stands behind every row of its group whose
\* CTY is in the list.
C1_UnrankedRowKeptLast ==
    (pass = 1 /\ Finished /\ \E i \in 1..Len(sheet) : Unranked(i))
        => /\ pc = "done"
           /\ Len(new_excel) = Len(sheet)
           /\ \A i, j \in 1..Len(sheet) :
                (Unranked(i) /\ ~Unranked(j) /\ SameRun(i, j)) => PosOf(j) < PosOf(i)

\* C3: a table with zero rows is sorted without error into a table with zero rows.
C3_EmptyTableEmptyOutput ==
    (pass = 1 /\ Finished /\ Len(sheet) = 0) => (pc = "done" /\ new_excel = <<>>)

\* C8: sorting the output of list_sorter again, with the same priority list,
\* completes and writes the same rows in the same order.
C8_SortIdempotent ==
    (pass = 2 /\ Finished) => (pc = "done" /\ new_excel = first_excel)

\* the second sort has finished on an output that the first sort had reordered
C8_Witness ==
    /\ pass = 2
    /\ pc = "done"
    /\ Len(sheet) >= 3
    /\ \E p \in 1..Len(sheet) : first_excel[p] /= sheet[p]

\* C9: two rows of equal (SORT_INDEX, SORT_CTY) keep their input order in the output.
C9_StableSort ==
    pc \in {"write", "done"} =>
        \A i, j \in 1..Len(df) :
            (i < j /\ col_index[i] = col_index[j] /\ col_cty[i] = col_cty[j])
                => PosOf(i) < PosOf(j)

\* the first sort has moved rows, and two rows of equal key are in the table
C9_Witness ==
    /\ pass = 1
    /\ pc = "done"
    /\ \E p \in 1..Len(df_index) : df_index[p] /= p
    /\ \E i, j \in 1..Len(df) :
         i < j /\ col_index[i] = col_index[j] /\ col_cty[i] = col_cty[j]

\* number of maximal runs of adjacent equal titles among the first n rows
Runs(n) ==
    Cardinality({k \in 1..n : k = 1 \/ sheet[k].TITLE /= sheet[k - 1].TITLE})

\* C10: SORT_INDEX is 1 for the first row, the preceding row's value plus 1 when
\* the title differs from the preceding row's title, and the preceding row's
\* value otherwise; so the number of distinct values is the number of maximal
\* runs of adjacent equal titles.
C10_GroupRankByAdjacency ==
    pass = 1 =>
        /\ \A i \in 1..Len(col_index) :
             col_index[i] =
                IF i = 1 THEN 1
                ELSE IF sheet[i].TITLE /= sheet[i - 1].TITLE
                     THEN col_index[i - 1] + 1
                     ELSE col_index[i - 1]
        /\ Cardinality({col_index[i] : i \in 1..Len(col_index)}) = Runs(Len(col_index))

(***************************************************************************)
(* ListUpdater: values                                                     *)
(***************************************************************************)
\* date_parser.parse('1971-01-01 0:00') (144): older than every real timestamp
Epoch == 0

Times == 1..MaxTime

None == "None"

\* google_drive_filename='bowielist' (181)
GoogleDriveFilename == "bowielist"

\* os.getenv('LIST_LOCATION') (180) and the names it may list
ListLocation == "http://host/lists/"
SourceNames == {"bowielist_1.xlsx"}

\* CurrentItem.__post_init__ (50-51): url.split('/')[-1]; a url is kept here
\* as its part up to the last '/' and its part behind it
CurrentItem(base, name, last_modified) ==
    [url |-> <<base, name>>, last_modified |-> last_modified, filename |-> name]

\* get_google_drive_item (139-150)
GetGoogleDriveItem(files, google_drive_filename) ==
    LET search_result == SelectSeq(files, LAMBDA f : f.title = google_drive_filename)
    IN  IF search_result = <<>>
        THEN [id |-> None, last_modified |-> Epoch, filename |-> google_drive_filename]
        ELSE [id |-> search_result[1].id,
              last_modified |-> search_result[1].modifiedDate,
              filename |-> google_drive_filename]

\* the comparison with ties counted as newer
IsListNewerOrSame(cur, gd) == cur.last_modified >= gd.last_modified

\* _is_list_newer (76-78)
IsListNewer(cur, gd) == cur.last_modified > gd.last_modified

\* Python truth value of google_drive_item.id (83)
Truthy(id) == id /= None /\ id /= ""

\* an upload that never looks at the id
UploadTargetAlwaysCreate(gd) == [kind |-> "create", ref |-> gd.filename]

\* _upload_file (83-92): the metadata handed to drive.CreateFile
UploadTarget(gd) ==
    IF Truthy(gd.id)
    THEN [kind |-> "update", ref |-> gd.id]
    ELSE [kind |-> "create", ref |-> gd.filename]

\* id of a file Drive creates
FreshId(files) == IF Len(files) = 0 THEN "id1" ELSE "id2"

\* drive_item.Upload (94): the file with that id gets the content and a new
\* modifiedDate; without an id a new file with the title is created
Upload(files, target, content, now) ==
    IF target.kind = "update"
    THEN [k \in 1..Len(files) |->
            IF files[k].id = target.ref
            THEN [files[k] EXCEPT !.content = content, !.modifiedDate = now]
            ELSE files[k]]
    ELSE Append(files, [id |-> FreshId(files), title |-> target.ref,
                        modifiedDate |-> now, content |-> content])

\* an exception in _download_list that run swallows
AfterDownloadSwallowed(ok) == "upload"

\* run (106-107): _upload_file follows _download_list unless it raised
AfterDownload(ok) == IF ok THEN "upload" ELSE "raised"

(***************************************************************************)
(* ListUpdater: steps                                                      *)
(***************************************************************************)
IdleSort ==
    /\ sheet = <<>>
    /\ cty_order_list = <<>>
    /\ df = <<>>
    /\ columns = <<>>
    /\ col_index = <<>>
    /\ col_cty = <<>>
    /\ it = 0
    /\ sort_index = 0
    /\ df_index = <<>>
    /\ new_excel = NoFile
    /\ pc = "off"
    /\ pass = 1
    /\ first_excel = NoFile

InitialDrives ==
    {<<>>} \cup
    {<<[id |-> "id1", title |-> GoogleDriveFilename, modifiedDate |-> t, content |-> Epoch]>> :
        t \in Times}

InitSync ==
    /\ IdleSort
    /\ IdleResolve
    /\ drive \in InitialDrives
    /\ source \in [name : SourceNames, last_modified : Times]
    /\ google_drive_item = <<>>
    /\ current_item = <<>>
    /\ local_files = {}
    /\ calls = <<>>
    /\ rpc = "main"
    /\ runs = 0
    /\ drive_before = drive
    /\ files_before = {}
    /\ failed = ""

\* main (176-185): build both items and call run
Main ==
    /\ rpc \in {"main", "returned", "raised"}
    /\ runs < MaxRuns
    /\ runs' = runs + 1
    /\ current_item' = CurrentItem(ListLocation, source.name, source.last_modified)
    /\ google_drive_item' = GetGoogleDriveItem(drive, GoogleDriveFilename)
    /\ calls' = <<>>
    /\ drive_before' = drive
    /\ files_before' = local_files
    /\ failed' = ""
    /\ rpc' = "run"
    /\ UNCHANGED <<drive, source, local_files>>
    /\ UNCHANGED <<sortVars, resVars>>

\* run (103-105): nothing to do
RunReturnsEarly ==
    /\ rpc = "run"
    /\ ~IsListNewer(current_item, google_drive_item)
    /\ rpc' = "returned"
    /\ UNCHANGED <<drive, source, google_drive_item, current_item, local_files,
                   calls, runs, drive_before, files_before>>
    /\ UNCHANGED failed
    /\ UNCHANGED <<sortVars, resVars>>

\* run (103, 106): go on to _download_list
RunGoesOn ==
    /\ rpc = "run"
    /\ IsListNewer(current_item, google_drive_item)
    /\ rpc' = "download"
    /\ UNCHANGED <<drive, source, google_drive_item, current_item, local_files,
                   calls, runs, drive_before, files_before>>
    /\ UNCHANGED failed
    /\ UNCHANGED <<sortVars, resVars>>

DownloadCall == [op |-> "download", kind |-> "get", ref |-> current_item.filename]

\* _download_list (69-74)
DownloadList ==
    /\ rpc = "download"
    /\ calls' = Append(calls, DownloadCall)
    /\ local_files' = local_files \cup {current_item.filename}
    /\ rpc' = AfterDownload(TRUE)
    /\ UNCHANGED <<drive, source, google_drive_item, current_item, runs,
                   drive_before, files_before>>
    /\ UNCHANGED failed
    /\ UNCHANGED <<sortVars, resVars>>

\* _download_list (72): requests.get raises; no file is opened
DownloadGetRaises ==
    /\ rpc = "download"
    /\ calls' = Append(calls, DownloadCall)
    /\ rpc' = AfterDownload(FALSE)
    /\ UNCHANGED <<drive, source, google_drive_item, current_item, local_files,
                   runs, drive_before, files_before>>
    /\ failed' = "download"
    /\ UNCHANGED <<sortVars, resVars>>

\* _download_list (73-74): open has created the file, f.write raises
DownloadWriteRaises ==
    /\ rpc = "download"
    /\ calls' = Append(calls, DownloadCall)
    /\ local_files' = local_files \cup {current_item.filename}
    /\ rpc' = AfterDownload(FALSE)
    /\ UNCHANGED <<drive, source, google_drive_item, current_item, runs,
                   drive_before, files_before>>
    /\ failed' = "download"
    /\ UNCHANGED <<sortVars, resVars>>

UploadCall ==
    LET t == UploadTarget(google_drive_item)
    IN  [op |-> "upload", kind |-> t.kind, ref |-> t.ref]

\* _upload_file (80-94); Drive stamps the upload with its own clock
UploadFile ==
    /\ rpc = "upload"
    /\ current_item.filename \in local_files
    /\ calls' = Append(calls, UploadCall)
    /\ \E now \in Times :
         drive' = Upload(drive, UploadTarget(google_drive_item),
                         current_item.last_modified, now)
    /\ rpc' = "delete"
    /\ UNCHANGED <<source, google_drive_item, current_item, local_files, runs,
                   drive_before, files_before>>
    /\ UNCHANGED failed
    /\ UNCHANGED <<sortVars, resVars>>

\* _upload_file (93-94): SetContentFile or Upload raises
UploadRaises ==
    /\ rpc = "upload"
    /\ calls' = Append(calls, UploadCall)
    /\ rpc' = "raised"
    /\ UNCHANGED <<drive, source, google_drive_item, current_item, local_files,
                   runs, drive_before, files_before>>
    /\ failed' = "upload"
    /\ UNCHANGED <<sortVars, resVars>>

\* _delete_temp_xlsx (96-99), then run returns (108)
DeleteTempXlsx ==
    /\ rpc = "delete"
    /\ calls' = Append(calls, [op |-> "delete", kind |-> "remove", ref |-> current_item.filename])
    /\ local_files' = local_files \ {current_item.filename}
    /\ rpc' = "returned"
    /\ UNCHANGED <<drive, source, google_drive_item, current_item, runs,
                   drive_before, files_before>>
    /\ UNCHANGED failed
    /\ UNCHANGED <<sortVars, resVars>>

NextSync ==
    \/ Main
    \/ RunReturnsEarly
    \/ RunGoesOn
    \/ DownloadList
    \/ DownloadGetRaises
    \/ DownloadWriteRaises
    \/ UploadFile
    \/ UploadRaises
    \/ DeleteTempXlsx

SpecSync == InitSync /\ [][NextSync]_vars

(***************************************************************************)
(* ListUpdater: properties                                                 *)
(***************************************************************************)
InRun == rpc \in {"run", "download", "upload", "delete", "returned", "raised"}

RunOver == rpc \in {"returned", "raised"}

Attempted(op) == \E k \in 1..Len(calls) : calls[k].op = op

\* C2: when the download has created the staging file and the upload then
\* fails, the staging file is gone when the run ends.
C2_UploadFailureStillCleans ==
    (RunOver /\ failed = "upload") => current_item.filename \notin local_files

C5_TransferInOrder ==
    (rpc = "returned"
     /\ current_item.last_modified > google_drive_item.last_modified)
        => /\ Len(calls) = 3
           /\ calls[1].op = "download" /\ calls[1].ref = current_item.filename
           /\ calls[2].op = "upload"
           /\ calls[3].op = "delete" /\ calls[3].ref = current_item.filename
           /\ current_item.filename \notin local_files
           /\ IF google_drive_item.id = None
              THEN /\ calls[2].kind = "create"
                   /\ calls[2].ref = google_drive_item.filename
                   /\ Len(drive) = Len(drive_before) + 1
                   /\ drive[Len(drive)].title = google_drive_item.filename
                   /\ drive[Len(drive)].content = current_item.last_modified
              ELSE /\ calls[2].kind = "update"
                   /\ calls[2].ref = google_drive_item.id
                   /\ Len(drive) = Len(drive_before)
                   /\ \E k \in 1..Len(drive) :
                        /\ drive[k].id = google_drive_item.id
                        /\ drive[k].content = current_item.last_modified

\* a run has updated the file that an earlier run of the program found or made
C5_Witness ==
    /\ runs = 2
    /\ rpc = "returned"
    /\ Len(calls) = 3
    /\ calls[2].kind = "update"
    /\ calls[2].ref = google_drive_item.id

ItemFilenameContains == <<"b", "l">>

\* the link of a Name cell; NoHref for a row without a link, which lines
\* 159-162 drop
NoHref == <<"None">>
Hrefs == {<<"b", "l", "1">>, <<"b", "l", "2">>, <<"o", "b", "l">>, <<"l", "b">>}

Years == {2023, 2024}
Months == {2, 12}
Days == {5, 12}
Dates == [y : Years, m : Months, d : Days]

\* the index page writes "YYYY-MM-DD hh:mm" (Apache 2.4) or "DD-Mon-YYYY hh:mm" (Apache 2.2)
DateFormats == {"iso", "dmy"}

\* the text of a Last modified cell, as its fields in the order they are written
FormatDate(fmt, date) ==
    IF fmt = "iso" THEN <<date.y, date.m, date.d>> ELSE <<date.d, date.m, date.y>>

\* place of a month's English abbreviation in alphabetical order
\* (Apr Aug Dec Feb Jan Jul Jun Mar May Nov Oct Sep)
AbbrRank(m) ==
    CASE m = 1 -> 5 [] m = 2 -> 4 [] m = 3 -> 8 [] m = 4 -> 1 [] m = 5 -> 9 [] m = 6 -> 7
      [] m = 7 -> 6 [] m = 8 -> 2 [] m = 9 -> 12 [] m = 10 -> 11 [] m = 11 -> 10 [] m = 12 -> 3

\* what a field weighs when two texts are compared as strings: a number of
\* fixed width by its value, a month by its digits ("iso") or its abbreviation
FieldWeight(fmt, k, text) == IF fmt = "dmy" /\ k = 2 THEN AbbrRank(text[k]) ELSE text[k]

\* a < b as Python strings
TextLess(fmt, a, b) ==
    \E k \in 1..3 :
        /\ FieldWeight(fmt, k, a) < FieldWeight(fmt, k, b)
        /\ \A j \in 1..(k - 1) : FieldWeight(fmt, j, a) = FieldWeight(fmt, j, b)

\* date_parser.parse(text).astimezone() (168): the day, counted from a fixed origin
ParseDate(fmt, text) ==
    LET y == IF fmt = "iso" THEN text[1] ELSE text[3]
        d == IF fmt = "iso" THEN text[3] ELSE text[1]
    IN  (y * 12 + text[2]) * 31 + d

\* str.contains(sub) for a pattern without regular-expression characters (164)
Contains(name, sub) ==
    \E k \in 1..(Len(name) - Len(sub) + 1) : SubSeq(name, k, k + Len(sub) - 1) = sub

IndexPermutations(n) == {f \in [1..n -> 1..n] : \A i, j \in 1..n : i /= j => f[i] /= f[j]}

\* sort_values(by='Last modified', ascending=False) (165): the orders a sort
\* on the cell texts may leave the rows in (quicksort: ties in any order)
SortedDescending(fmt, rows) ==
    {[k \in 1..Len(rows) |-> rows[f[k]]] : f \in
        {g \in IndexPermutations(Len(rows)) :
            \A i, j \in 1..Len(rows) :
                i < j => ~TextLess(fmt, rows[g[i]].modified, rows[g[j]].modified)}}

(***************************************************************************)
(* get_current_item: steps                                                 *)
(***************************************************************************)
ListingRows == [href : Hrefs \cup {NoHref}, modified : Dates]

InitResolve ==
    /\ IdleSort
    /\ IdleSync
    /\ date_format \in DateFormats
    /\ \E dated \in SeqsUpTo(ListingRows, MaxEntries) :
         listing = [k \in 1..Len(dated) |->
                      [href |-> dated[k].href,
                       modified |-> FormatDate(date_format, dated[k].modified)]]
    /\ res_df = <<>>
    /\ result = <<>>
    /\ gpc = "parse"

\* 158-162: the rows with a linked name; Name is the link, Last modified the text
ParseListing ==
    /\ gpc = "parse"
    /\ res_df' = SelectSeq(listing, LAMBDA r : r.href /= NoHref)
    /\ gpc' = "filter"
    /\ UNCHANGED <<date_format, listing, result>>
    /\ UNCHANGED <<sortVars, syncVars>>

\* 164
FilterByName ==
    /\ gpc = "filter"
    /\ res_df' = SelectSeq(res_df, LAMBDA r : Contains(r.href, ItemFilenameContains))
    /\ gpc' = "sort"
    /\ UNCHANGED <<date_format, listing, result>>
    /\ UNCHANGED <<sortVars, syncVars>>

\* 165
SortByLastModified ==
    /\ gpc = "sort"
    /\ res_df' \in SortedDescending(date_format, res_df)
    /\ gpc' = "select"
    /\ UNCHANGED <<date_format, listing, result>>
    /\ UNCHANGED <<sortVars, syncVars>>

\* 166: df.iloc(0)[0] on a frame without rows raises IndexError
SelectRaises ==
    /\ gpc = "select"
    /\ res_df = <<>>
    /\ gpc' = "raised"
    /\ UNCHANGED <<date_format, listing, res_df, result>>
    /\ UNCHANGED <<sortVars, syncVars>>

\* 166-173
SelectLatest ==
    /\ gpc = "select"
    /\ res_df /= <<>>
    /\ LET latest_item_row == res_df[1]
       IN  result' = CurrentItem(ListLocation, latest_item_row.href,
                                 ParseDate(date_format, latest_item_row.modified))
    /\ gpc' = "done"
    /\ UNCHANGED <<date_format, listing, res_df>>
    /\ UNCHANGED <<sortVars, syncVars>>

NextResolve ==
    \/ ParseListing
    \/ FilterByName
    \/ SortByLastModified
    \/ SelectRaises
    \/ SelectLatest

SpecResolve == InitResolve /\ [][NextResolve]_vars

(***************************************************************************)
(* get_current_item: properties                                            *)
(***************************************************************************)
Matching == {k \in 1..Len(listing) :
                listing[k].href /= NoHref /\ Contains(listing[k].href, ItemFilenameContains)}

\* C6: when some entry's name contains the filter string, the item returned is
\* an entry whose name contains it and whose last-modified time, as a point in
\* time, is the latest among those entries.
C6_LatestMatchingEntry ==
    (gpc \in {"done", "raised"} /\ Matching /= {})
        => /\ gpc = "done"
           /\ \E k \in Matching :
                /\ result.filename = listing[k].href
                /\ result.last_modified = ParseDate(date_format, listing[k].modified)
           /\ \A k \in Matching :
                result.last_modified >= ParseDate(date_format, listing[k].modified)

=============================================================================
